---- MODULE Spec2Model ----
(***************************************************************************)
(* A model of rgx: the pattern colorizer (src/output.rs, colorize_regex)   *)
(* and the match normalizer (src/commands/test.rs, test_pattern).          *)
(*                                                                         *)
(* Offsets are 0-based as in the Rust source; a TLA+ sequence is 1-based,  *)
(* so the character at Rust index k of cs is cs[k + 1].                    *)
(***************************************************************************)
EXTENDS Integers, Sequences, FiniteSets, TLC

VARIABLES
    chars,      \* colorize_regex: the pattern as a vector of scalar values
    i,          \* colorize_regex: the scan index
    spans,      \* colorize_regex: the pieces pushed onto result, in order
    reads,      \* colorize_regex: the indices of chars read by the last iteration
    panicked,   \* colorize_regex: an index out of bounds was read (Rust panics)
    tpc,        \* colorize_regex: "idle", "loop" or "done"
    generated,      \* test_pattern: the GenerateResponse passed in
    test_input,     \* TestCommand.test_input
    regex,          \* test_pattern: what Regex::new returned
    caps,           \* test_pattern: what regex.captures returned
    match_details,  \* test_pattern: the Option<MatchDetails> built from caps
    result,         \* test_pattern: the Result<TestResult> returned
    engineCalls,    \* test_pattern: the calls made to the regex engine, in order
    npc,            \* test_pattern: "idle", "start", "compiled", "matched", "done"
    others,         \* the locals of a second colorize_regex call (others.tok)
                    \* and of a second test_pattern call (others.test)
    strip_s,        \* strip_markdown_code_block: the argument s
    strip_ret,      \* strip_markdown_code_block: the String returned
    prompt,         \* run: the prompt built; Claude::query: the argument prompt
    spawned,        \* Claude::query: the arguments of the processes run, in order
    output,         \* Claude::query: what Command::output returned
    response,       \* Claude::query: the ClaudeResponse parsed from stdout
    qret,           \* Claude::query: the Result<String> returned
    qlog,           \* Claude::query: the functions applied to the output, in order
    qpc,            \* Claude::query: "idle", "start", "spawned", "succeeded",
                    \* "parsed" or "done"
    cli,            \* run: the Cli passed in
    parsed,         \* run: what parse_response returned
    printed,        \* run: the lines written by println!, in order
    rlog,           \* run: the calls run has made, in order
    rret,           \* run: the Result<()> returned
    rpc             \* run: "idle", "start", "validated", "input", "prompt",
                    \* "query", "response", "parsed", "test", "done"

tokVars == <<chars, i, spans, reads, panicked, tpc>>

normVars == <<generated, test_input, regex, caps, match_details, result,
              engineCalls, npc>>

stripVars == <<strip_s, strip_ret>>

queryVars == <<prompt, spawned, output, response, qret, qlog, qpc>>

runVars == <<cli, parsed, printed, rlog, rret, rpc>>

cliVars == <<stripVars, queryVars, runVars>>

vars == <<chars, i, spans, reads, panicked, tpc, generated, test_input, regex,
          caps, match_details, result, engineCalls, npc, others, cliVars>>

----------------------------------------------------------------------------
(* Bounds of the model *)

MaxLen == 4

(* The characters the bounded patterns are drawn from. *)
Alphabet == {"\\", "^", "{", "}", "[", "]", "(", "a"}

(* Further characters, met in one- and two-character patterns. *)
MoreChars == {"$", "+", "*", "?", "|", ")", "d", "D", "w", "W", "s", "S",
              "b", "B", "A", "z", "Z", "n", "-", "3", ":"}

RECURSIVE SeqsUpTo(_, _)
SeqsUpTo(S, n) ==
    IF n = 0 THEN {<<>>}
    ELSE LET shorter == SeqsUpTo(S, n - 1)
         IN  shorter \cup {Append(s, c) : s \in {t \in shorter : Len(t) = n - 1}, c \in S}

(* The patterns of the test-suite of src/output.rs that are longer than MaxLen. *)
TestPatterns ==
    { <<"[", "]", "a", "b", "c", "]">>,
      <<"[", "^", "]", "a", "b", "c", "]">>,
      <<"[", "a", "\\", "]", "b", "]">>,
      <<"[", "\\", "d", "\\", "w", "]">>,
      <<"\\", "[", "a", "b", "c", "\\", "]">>,
      <<"(", "?", ":", "a", "b", "c", ")">>,
      <<"^", "\\", "d", "{", "3", "}", "-", "\\", "d", "{", "4", "}", "$">>,
      <<"[", "a", "b", "c", "{", "3", "}", "\\", "d">>,
      <<"{", "1", ",", "5", "}">> }

Patterns ==
    SeqsUpTo(Alphabet, MaxLen)
        \cup TestPatterns
        \cup {<<c>> : c \in MoreChars}
        \cup {<<"\\", c>> : c \in MoreChars}
        \cup {<<"(", c, ")">> : c \in MoreChars}

----------------------------------------------------------------------------
(* colorize_regex *)

(* chars[k], with the panic of an out-of-bounds index made a value. *)
Rd(cs, k) == IF k < Len(cs) THEN cs[k + 1] ELSE "<out of bounds>"

(* chars[a..b] (half-open), collected into a string. *)
Slice(cs, a, b) == SubSeq(cs, a + 1, b)

ShorthandChars == {"d", "D", "w", "W", "s", "S"}
EscapedAnchorChars == {"b", "B", "A", "z", "Z"}

(* EscapeCategory without the arm of the escaped anchors. *)
EscapeCategoryNoAnchors(next) ==
    IF next \in ShorthandChars THEN "CharClassShorthand" ELSE "Literal"

(* The match on the escaped character. *)
EscapeCategory(next) ==
    IF next \in ShorthandChars THEN "CharClassShorthand"
    ELSE IF next \in EscapedAnchorChars THEN "Anchor"
    ELSE "Literal"

(* EscapeCond without the test i + 1 < chars.len(). *)
EscapeCondUnguarded(cs, k) ==
    [holds |-> Rd(cs, k) = "\\", reads |-> {k}]

(* The condition of the escape branch, with the indices it reads. *)
EscapeCond(cs, k) ==
    IF Rd(cs, k) = "\\"
    THEN [holds |-> k + 1 < Len(cs), reads |-> {k}]
    ELSE [holds |-> FALSE, reads |-> {k}]

(* BraceScan stepping over a backslash and the character after it. *)
RECURSIVE BraceScanSkipEscape(_, _, _)
BraceScanSkipEscape(cs, end, rd) ==
    IF end < Len(cs)
    THEN IF Rd(cs, end) # "}"
         THEN IF Rd(cs, end) = "\\" /\ end + 1 < Len(cs)
              THEN BraceScanSkipEscape(cs, end + 2, rd \cup {end})
              ELSE BraceScanSkipEscape(cs, end + 1, rd \cup {end})
         ELSE [end |-> end, reads |-> rd \cup {end}]
    ELSE [end |-> end, reads |-> rd]

(* The scan for the closing brace: where it stops and what it read. *)
RECURSIVE BraceScan(_, _, _)
BraceScan(cs, end, rd) ==
    IF end < Len(cs)
    THEN IF Rd(cs, end) # "}"
         THEN BraceScan(cs, end + 1, rd \cup {end})
         ELSE [end |-> end, reads |-> rd \cup {end}]
    ELSE [end |-> end, reads |-> rd]

(* SetPrefix without the step over a leading ]. *)
SetPrefixNoLiteralClose(cs, k) ==
    LET e1 == k + 1
        neg == e1 < Len(cs) /\ Rd(cs, e1) = "^"
        e2 == IF neg THEN e1 + 1 ELSE e1
    IN  [end |-> e2, reads |-> {x \in {e1} : e1 < Len(cs)}]

(* The two optional steps over a leading ^ and a leading ]. *)
SetPrefix(cs, k) ==
    LET e1 == k + 1
        neg == e1 < Len(cs) /\ Rd(cs, e1) = "^"
        e2 == IF neg THEN e1 + 1 ELSE e1
        lit == e2 < Len(cs) /\ Rd(cs, e2) = "]"
        e3 == IF lit THEN e2 + 1 ELSE e2
    IN  [end |-> e3,
         reads |-> {x \in {e1} : e1 < Len(cs)} \cup {x \in {e2} : e2 < Len(cs)}]

(* SetScan stepping over a backslash alone. *)
RECURSIVE SetScanNoEscape(_, _, _)
SetScanNoEscape(cs, end, rd) ==
    IF end < Len(cs)
    THEN IF Rd(cs, end) # "]"
         THEN SetScanNoEscape(cs, end + 1, rd \cup {end})
         ELSE [end |-> end, reads |-> rd \cup {end}]
    ELSE [end |-> end, reads |-> rd]

(* The scan for the closing bracket: where it stops and what it read. *)
RECURSIVE SetScan(_, _, _)
SetScan(cs, end, rd) ==
    IF end < Len(cs)
    THEN IF Rd(cs, end) # "]"
         THEN IF Rd(cs, end) = "\\" /\ end + 1 < Len(cs)
              THEN SetScan(cs, end + 2, rd \cup {end})
              ELSE SetScan(cs, end + 1, rd \cup {end})
         ELSE [end |-> end, reads |-> rd \cup {end}]
    ELSE [end |-> end, reads |-> rd]

BraceEnd(cs, k) == BraceScan(cs, k + 1, {})

SetEnd(cs, k) ==
    LET p == SetPrefix(cs, k)
    IN  SetScan(cs, p.end, p.reads)

IsEscape(cs, k)      == EscapeCond(cs, k).holds
(* IsAnchor without the test for $. *)
IsAnchorCaretOnly(cs, k) == Rd(cs, k) = "^"

IsAnchor(cs, k)      == Rd(cs, k) \in {"^", "$"}
IsQuantifier(cs, k)  == Rd(cs, k) \in {"+", "*", "?"}
IsAlternation(cs, k) == Rd(cs, k) = "|"
IsQuantRange(cs, k)  == Rd(cs, k) = "{" /\ BraceEnd(cs, k).end < Len(cs)
IsCharSet(cs, k)     == Rd(cs, k) = "[" /\ SetEnd(cs, k).end < Len(cs)
IsGroupOpen(cs, k)   == Rd(cs, k) = "("
IsGroupClose(cs, k)  == Rd(cs, k) = ")"

(* The indices one iteration reads before it reaches the brace branch, the   *)
(* bracket branch and the end of the body.                                   *)
ReadsAtBrace(cs, k) ==
    {k} \cup (IF Rd(cs, k) = "{" THEN BraceEnd(cs, k).reads ELSE {})

ReadsAtSet(cs, k) ==
    ReadsAtBrace(cs, k) \cup (IF Rd(cs, k) = "[" THEN SetEnd(cs, k).reads ELSE {})

(* One piece pushed onto result: its text, its offsets and its category. *)
Span(s, e, cat, text) == [start |-> s, end |-> e, category |-> cat, text |-> text]

(* The piece one iteration of the loop pushes when it starts at index k of   *)
(* cs: the branches in the order of the loop body.                           *)
NextSpan(cs, k) ==
    IF IsEscape(cs, k)
        THEN Span(k, k + 2, EscapeCategory(Rd(cs, k + 1)), <<"\\", Rd(cs, k + 1)>>)
    ELSE IF IsAnchor(cs, k) THEN Span(k, k + 1, "Anchor", <<Rd(cs, k)>>)
    ELSE IF IsQuantifier(cs, k) THEN Span(k, k + 1, "Quantifier", <<Rd(cs, k)>>)
    ELSE IF IsAlternation(cs, k) THEN Span(k, k + 1, "Alternation", <<"|">>)
    ELSE IF IsQuantRange(cs, k)
        THEN Span(k, BraceEnd(cs, k).end + 1, "QuantifierRange",
                  Slice(cs, k, BraceEnd(cs, k).end + 1))
    ELSE IF IsCharSet(cs, k)
        THEN Span(k, SetEnd(cs, k).end + 1, "CharacterSet",
                  Slice(cs, k, SetEnd(cs, k).end + 1))
    ELSE IF IsGroupOpen(cs, k) THEN Span(k, k + 1, "GroupDelimiter", <<"(">>)
    ELSE IF IsGroupClose(cs, k) THEN Span(k, k + 1, "GroupDelimiter", <<")">>)
    ELSE Span(k, k + 1, "Literal", <<Rd(cs, k)>>)

(* colorize_regex run to its end on cs, from index k. *)
RECURSIVE TokenizeFrom(_, _)
TokenizeFrom(cs, k) ==
    IF k < Len(cs)
    THEN LET sp == NextSpan(cs, k) IN <<sp>> \o TokenizeFrom(cs, sp.end)
    ELSE <<>>

Tokenize(cs) == TokenizeFrom(cs, 0)

(* The shared effect of an iteration: push one piece, move i, note the reads. *)
Emit(newI, cat, text, rd) ==
    /\ spans' = Append(spans, Span(i, newI, cat, text))
    /\ i' = newI
    /\ reads' = rd
    /\ panicked' = (\E k \in rd : k >= Len(chars))
    /\ UNCHANGED <<chars, tpc>>
    /\ UNCHANGED <<normVars, others, cliVars>>

InLoop == tpc = "loop" /\ ~panicked /\ i < Len(chars)

Escape ==
    /\ InLoop
    /\ IsEscape(chars, i)
    /\ LET next == Rd(chars, i + 1)
       IN  Emit(i + 2, EscapeCategory(next), <<"\\", next>>, {i, i + 1})

Anchor ==
    /\ InLoop
    /\ ~IsEscape(chars, i)
    /\ IsAnchor(chars, i)
    /\ Emit(i + 1, "Anchor", <<Rd(chars, i)>>, {i})

Quantifier ==
    /\ InLoop
    /\ ~IsEscape(chars, i) /\ ~IsAnchor(chars, i)
    /\ IsQuantifier(chars, i)
    /\ Emit(i + 1, "Quantifier", <<Rd(chars, i)>>, {i})

Alternation ==
    /\ InLoop
    /\ ~IsEscape(chars, i) /\ ~IsAnchor(chars, i) /\ ~IsQuantifier(chars, i)
    /\ IsAlternation(chars, i)
    /\ Emit(i + 1, "Alternation", <<"|">>, {i})

(* QuantRange resuming at the closing brace instead of after it. *)
QuantRangeResumeAtBrace ==
    /\ InLoop
    /\ ~IsEscape(chars, i) /\ ~IsAnchor(chars, i) /\ ~IsQuantifier(chars, i)
    /\ ~IsAlternation(chars, i)
    /\ IsQuantRange(chars, i)
    /\ LET end == BraceEnd(chars, i).end
       IN  Emit(end, "QuantifierRange", Slice(chars, i, end + 1),
                ReadsAtBrace(chars, i))

QuantRange ==
    /\ InLoop
    /\ ~IsEscape(chars, i) /\ ~IsAnchor(chars, i) /\ ~IsQuantifier(chars, i)
    /\ ~IsAlternation(chars, i)
    /\ IsQuantRange(chars, i)
    /\ LET end == BraceEnd(chars, i).end
       IN  Emit(end + 1, "QuantifierRange", Slice(chars, i, end + 1),
                ReadsAtBrace(chars, i))

CharSet ==
    /\ InLoop
    /\ ~IsEscape(chars, i) /\ ~IsAnchor(chars, i) /\ ~IsQuantifier(chars, i)
    /\ ~IsAlternation(chars, i) /\ ~IsQuantRange(chars, i)
    /\ IsCharSet(chars, i)
    /\ LET end == SetEnd(chars, i).end
       IN  Emit(end + 1, "CharacterSet", Slice(chars, i, end + 1),
                ReadsAtSet(chars, i))

GroupOpen ==
    /\ InLoop
    /\ ~IsEscape(chars, i) /\ ~IsAnchor(chars, i) /\ ~IsQuantifier(chars, i)
    /\ ~IsAlternation(chars, i) /\ ~IsQuantRange(chars, i) /\ ~IsCharSet(chars, i)
    /\ IsGroupOpen(chars, i)
    /\ Emit(i + 1, "GroupDelimiter", <<"(">>, ReadsAtSet(chars, i))

GroupClose ==
    /\ InLoop
    /\ ~IsEscape(chars, i) /\ ~IsAnchor(chars, i) /\ ~IsQuantifier(chars, i)
    /\ ~IsAlternation(chars, i) /\ ~IsQuantRange(chars, i) /\ ~IsCharSet(chars, i)
    /\ ~IsGroupOpen(chars, i)
    /\ IsGroupClose(chars, i)
    /\ Emit(i + 1, "GroupDelimiter", <<")">>, ReadsAtSet(chars, i))

(* Default pushing the whole rest of the pattern uncoloured after an opener  *)
(* that is never closed.                                                     *)
DefaultMergeUnclosed ==
    /\ InLoop
    /\ ~IsEscape(chars, i) /\ ~IsAnchor(chars, i) /\ ~IsQuantifier(chars, i)
    /\ ~IsAlternation(chars, i) /\ ~IsQuantRange(chars, i) /\ ~IsCharSet(chars, i)
    /\ ~IsGroupOpen(chars, i) /\ ~IsGroupClose(chars, i)
    /\ IF Rd(chars, i) \in {"{", "["}
       THEN Emit(Len(chars), "Literal", Slice(chars, i, Len(chars)), ReadsAtSet(chars, i))
       ELSE Emit(i + 1, "Literal", <<Rd(chars, i)>>, ReadsAtSet(chars, i))

Default ==
    /\ InLoop
    /\ ~IsEscape(chars, i) /\ ~IsAnchor(chars, i) /\ ~IsQuantifier(chars, i)
    /\ ~IsAlternation(chars, i) /\ ~IsQuantRange(chars, i) /\ ~IsCharSet(chars, i)
    /\ ~IsGroupOpen(chars, i) /\ ~IsGroupClose(chars, i)
    /\ Emit(i + 1, "Literal", <<Rd(chars, i)>>, ReadsAtSet(chars, i))

(* The loop condition fails: colorize_regex returns result. *)
Exit ==
    /\ tpc = "loop"
    /\ ~panicked
    /\ ~(i < Len(chars))
    /\ tpc' = "done"
    /\ UNCHANGED <<chars, i, spans, reads, panicked>>
    /\ UNCHANGED <<normVars, others, cliVars>>

TokInit ==
    /\ chars \in Patterns
    /\ i = 0
    /\ spans = <<>>
    /\ reads = {}
    /\ panicked = FALSE
    /\ tpc = "loop"


(* No colorize_regex call is in progress. *)
TokIdle ==
    /\ chars = <<>>
    /\ i = 0
    /\ spans = <<>>
    /\ reads = {}
    /\ panicked = FALSE
    /\ tpc = "idle"

(* No test_pattern call is in progress. *)
NormIdle ==
    /\ generated = [pattern |-> "", matches |-> <<>>, non_matches |-> <<>>,
                    explanation |-> ""]
    /\ test_input = <<>>
    /\ regex = [some |-> FALSE]
    /\ caps = [some |-> FALSE]
    /\ match_details = [some |-> FALSE]
    /\ result = [kind |-> "none"]
    /\ engineCalls = <<>>
    /\ npc = "idle"

(* No further call is in progress. *)
OthersIdle ==
    others = [tok |-> [chars |-> <<>>, i |-> 0, spans |-> <<>>, tpc |-> "idle"],
              test |-> [generated |-> [pattern |-> "", matches |-> <<>>,
                                       non_matches |-> <<>>, explanation |-> ""],
                        test_input |-> <<>>,
                        regex |-> [some |-> FALSE],
                        caps |-> [some |-> FALSE],
                        result |-> [kind |-> "none"],
                        npc |-> "idle"]]

(* No strip_markdown_code_block call is in progress. *)
StripIdle ==
    /\ strip_s = <<>>
    /\ strip_ret = [some |-> FALSE]

(* No Claude::query call is in progress. *)
QueryIdle ==
    /\ prompt = <<>>
    /\ spawned = <<>>
    /\ output = [some |-> FALSE]
    /\ response = [some |-> FALSE]
    /\ qret = [kind |-> "none"]
    /\ qlog = <<>>
    /\ qpc = "idle"

(* run is not in progress. *)
RunIdle ==
    /\ cli = [input |-> [some |-> FALSE], explain |-> FALSE,
              test |-> [some |-> FALSE], raw |-> FALSE, flavor |-> "Rust"]
    /\ parsed = [kind |-> "none"]
    /\ printed = <<>>
    /\ rlog = <<>>
    /\ rret = [kind |-> "none"]
    /\ rpc = "idle"

(* Nothing of the command line is running. *)
CliIdle == StripIdle /\ QueryIdle /\ RunIdle

TokNext ==
    \/ Escape
    \/ Anchor
    \/ Quantifier
    \/ Alternation
    \/ QuantRange
    \/ CharSet
    \/ GroupOpen
    \/ GroupClose
    \/ Default
    \/ Exit

(* A call of colorize_regex on its own. *)
TokenizerInit == TokInit /\ NormIdle /\ OthersIdle /\ CliIdle

SpecTokenizer == TokenizerInit /\ [][TokNext]_vars

----------------------------------------------------------------------------
(* Option and Result values *)

None == [some |-> FALSE]
Some(v) == [some |-> TRUE, val |-> v]

NoResult == [kind |-> "none"]
Err(e) == [kind |-> "Err", error |-> e]
Ok(v) == [kind |-> "Ok", value |-> v]

----------------------------------------------------------------------------
(* The regex engine, as test_pattern uses it *)

MaxInput == 2

(* The characters of the test inputs; EAcute takes two bytes in UTF-8. *)
EAcute == "U+00E9"
InputChars == {"a", "b", EAcute}
Inputs == SeqsUpTo(InputChars, MaxInput)

ByteWidth(c) == IF c = EAcute THEN 2 ELSE 1

RECURSIVE ByteLen(_)
ByteLen(str) == IF str = <<>> THEN 0 ELSE ByteWidth(str[1]) + ByteLen(Tail(str))

(* The byte offsets of str that fall between two characters. *)
Boundaries(str) == {ByteLen(SubSeq(str, 1, k)) : k \in 0..Len(str)}

(* &str[a..b] for byte offsets a <= b on character boundaries. *)
ByteSlice(str, a, b) ==
    LET from == CHOOSE k \in 0..Len(str) : ByteLen(SubSeq(str, 1, k)) = a
        to == CHOOSE k \in 0..Len(str) : ByteLen(SubSeq(str, 1, k)) = b
    IN  SubSeq(str, from + 1, to)

(* Regex::new on a few patterns: an error with the engine's message, or the  *)
(* compiled regex, of which test_pattern uses capture_names(): one           *)
(* Option<name> per group, the whole match (index 0) first.                  *)
PatternTable ==
    [ p \in {"", "b", "[", "(abc", "(a)?(b)", "a(b)?", "(a)|(b)",
             "(?P<first>a)(b)?"} |->
        CASE p = "[" -> [ok |-> FALSE, diag |-> "unclosed character class"]
          [] p = "(abc" -> [ok |-> FALSE, diag |-> "unclosed group"]
          [] p = "(a)?(b)" -> [ok |-> TRUE, names |-> <<None, None, None>>]
          [] p = "a(b)?" -> [ok |-> TRUE, names |-> <<None, None>>]
          [] p = "(a)|(b)" -> [ok |-> TRUE, names |-> <<None, None, None>>]
          [] p = "(?P<first>a)(b)?" ->
                [ok |-> TRUE, names |-> <<None, Some("first"), None>>]
          [] OTHER -> [ok |-> TRUE, names |-> <<None>>] ]

RegexNew(pattern) == PatternTable[pattern]

(* A Match of the engine: byte offsets into the input. *)
Matches(input, lo, hi) ==
    {m \in [start : Boundaries(input), end : Boundaries(input)] :
        lo <= m.start /\ m.start <= m.end /\ m.end <= hi}

(* The answers regex.captures may give: no match, or a Captures in which the *)
(* whole match is present and every group is absent or lies within it. Which *)
(* of them the engine gives is the engine's matter.                          *)
RegexCaptures(names, input) ==
    {None} \cup
    UNION { {Some(<<Some(whole)>> \o gs) :
                gs \in [1..(Len(names) - 1) ->
                          {None} \cup {Some(m) : m \in Matches(input, whole.start, whole.end)}]}
            : whole \in Matches(input, 0, ByteLen(input)) }

(* caps.get(k) and Match::as_str. *)
CapsGet(c, k) == IF k + 1 \in DOMAIN c THEN c[k + 1] ELSE None
(* AsStr taking the text from the start of the input. *)
AsStrFromStart(input, m) == ByteSlice(input, 0, m.end)

AsStr(input, m) == ByteSlice(input, m.start, m.end)

----------------------------------------------------------------------------
(* TestCommand::test_pattern *)

GroupCapture(index, name, value) == [index |-> index, name |-> name, value |-> value]

(* capture_names().enumerate().skip(1).filter_map(..).collect(), from the    *)
(* enumerated index k on.                                                    *)
RECURSIVE GroupsFrom(_, _, _, _)
GroupsFrom(names, c, input, k) ==
    IF k > Len(names) - 1 THEN <<>>
    ELSE LET m == CapsGet(c, k)
             rest == GroupsFrom(names, c, input, k + 1)
         IN  IF m.some
             THEN <<GroupCapture(k, names[k + 1], AsStr(input, m.val))>> \o rest
             ELSE rest

(* Groups with an entry for every declared group, an empty one for a group  *)
(* that did not take part.                                                   *)
GroupsDense(names, c, input) ==
    [k \in 1..(Len(names) - 1) |->
        LET m == CapsGet(c, k)
        IN  GroupCapture(k, names[k + 1], IF m.some THEN AsStr(input, m.val) ELSE <<>>)]

(* Groups numbered by position in the collected list (enumerate after        *)
(* filter_map).                                                              *)
GroupsByListPosition(names, c, input) ==
    LET gs == GroupsFrom(names, c, input, 1)
    IN  [p \in 1..Len(gs) |-> GroupCapture(p, gs[p].name, gs[p].value)]

(* Groups collected from the last declared group to the first. *)
GroupsReversed(names, c, input) ==
    LET gs == GroupsFrom(names, c, input, 1)
    IN  [p \in 1..Len(gs) |-> gs[Len(gs) + 1 - p]]

(* Groups with every name taken one place too early in capture_names(). *)
GroupsNamesShifted(names, c, input) ==
    LET gs == GroupsFrom(names, c, input, 1)
    IN  [p \in 1..Len(gs) |->
            GroupCapture(gs[p].index, names[gs[p].index], gs[p].value)]

Groups(names, c, input) == GroupsFrom(names, c, input, 1)

(* MatchDetails with the whole test input as full_match. *)
MatchDetailsWholeInput(names, c, input) ==
    LET full == CapsGet(c, 0).val
    IN  [full_match |-> input,
         groups |-> Groups(names, c, input),
         start |-> full.start,
         end |-> full.end]

(* The closure given to map: the MatchDetails of one Captures. *)
MatchDetails(names, c, input) ==
    LET full == CapsGet(c, 0).val
    IN  [full_match |-> AsStr(input, full),
         groups |-> Groups(names, c, input),
         start |-> full.start,
         end |-> full.end]

(* TestResult attaching a generated record rebuilt from the pattern alone. *)
TestResultRebuiltGenerated(gen, input, md) ==
    [pattern |-> gen.pattern,
     test_input |-> input,
     matches |-> md.some,
     match_details |-> md,
     generated |-> [gen EXCEPT !.explanation = ""]]

TestResult(gen, input, md) ==
    [pattern |-> gen.pattern,
     test_input |-> input,
     matches |-> md.some,
     match_details |-> md,
     generated |-> gen]

(* Compile reporting a pattern that does not compile as one that does not   *)
(* match.                                                                    *)
CompileErrorAsNoMatch ==
    /\ npc = "start"
    /\ engineCalls' = Append(engineCalls, "Regex::new")
    /\ LET r == RegexNew(generated.pattern)
       IN  /\ regex' = Some(r)
           /\ IF r.ok
              THEN /\ npc' = "compiled"
                   /\ result' = result
              ELSE /\ npc' = "done"
                   /\ result' = Ok(TestResult(generated, test_input, None))
    /\ UNCHANGED <<generated, test_input, caps, match_details>>
    /\ UNCHANGED <<tokVars, others, cliVars>>

(* let regex = Regex::new(&generated.pattern)?; *)
Compile ==
    /\ npc = "start"
    /\ engineCalls' = Append(engineCalls, "Regex::new")
    /\ LET r == RegexNew(generated.pattern)
       IN  /\ regex' = Some(r)
           /\ IF r.ok
              THEN /\ npc' = "compiled"
                   /\ result' = result
              ELSE /\ npc' = "done"
                   /\ result' = Err([variant |-> "InvalidRegex", message |-> r.diag])
    /\ UNCHANGED <<generated, test_input, caps, match_details>>
    /\ UNCHANGED <<tokVars, others, cliVars>>

(* Captures keeping only a match that begins at offset 0 of the input. *)
CapturesAnchored ==
    /\ npc = "compiled"
    /\ engineCalls' = Append(engineCalls, "captures")
    /\ \E c \in RegexCaptures(regex.val.names, test_input) :
          /\ caps' = Some(c)
          /\ match_details' =
                IF c.some /\ CapsGet(c.val, 0).val.start = 0
                THEN Some(MatchDetails(regex.val.names, c.val, test_input))
                ELSE None
    /\ npc' = "matched"
    /\ UNCHANGED <<generated, test_input, regex, result>>
    /\ UNCHANGED <<tokVars, others, cliVars>>

(* let match_details = regex.captures(&self.test_input).map(|caps| ..); *)
Captures ==
    /\ npc = "compiled"
    /\ engineCalls' = Append(engineCalls, "captures")
    /\ \E c \in RegexCaptures(regex.val.names, test_input) :
          /\ caps' = Some(c)
          /\ match_details' =
                IF c.some
                THEN Some(MatchDetails(regex.val.names, c.val, test_input))
                ELSE None
    /\ npc' = "matched"
    /\ UNCHANGED <<generated, test_input, regex, result>>
    /\ UNCHANGED <<tokVars, others, cliVars>>

(* Return failing when the pattern did not match. *)
ReturnErrOnNoMatch ==
    /\ npc = "matched"
    /\ result' = IF match_details.some
                 THEN Ok(TestResult(generated, test_input, match_details))
                 ELSE Err([variant |-> "NoMatch", message |-> "no match"])
    /\ npc' = "done"
    /\ UNCHANGED <<generated, test_input, regex, caps, match_details, engineCalls>>
    /\ UNCHANGED <<tokVars, others, cliVars>>

(* Ok(TestResult { .. }) *)
Return ==
    /\ npc = "matched"
    /\ result' = Ok(TestResult(generated, test_input, match_details))
    /\ npc' = "done"
    /\ UNCHANGED <<generated, test_input, regex, caps, match_details, engineCalls>>
    /\ UNCHANGED <<tokVars, others, cliVars>>

(* make_generated of the test-suite: the record test_pattern is given. *)
MakeGenerated(pattern) ==
    [pattern |-> pattern, matches |-> <<>>, non_matches |-> <<>>,
     explanation |-> "test pattern"]

NormInit ==
    /\ generated \in {MakeGenerated(p) : p \in DOMAIN PatternTable}
    /\ test_input \in Inputs
    /\ regex = None
    /\ caps = None
    /\ match_details = None
    /\ result = NoResult
    /\ engineCalls = <<>>
    /\ npc = "start"

NormNext ==
    \/ Compile
    \/ Captures
    \/ Return

(* A call of test_pattern on its own. *)
NormalizerInit == NormInit /\ TokIdle /\ OthersIdle /\ CliIdle

SpecNormalizer == NormalizerInit /\ [][NormNext]_vars

----------------------------------------------------------------------------
(* Calls running side by side. Neither function has a static or a global:   *)
(* chars, result and i are locals of colorize_regex, regex and              *)
(* match_details are locals of test_pattern, and &self and &generated are   *)
(* shared references. A second call of each function runs on locals of its  *)
(* own, kept in others.                                                      *)

(* A second colorize_regex with a result buffer common to all calls. *)
OtherTokStepSharedResult ==
    /\ others.tok.tpc = "loop"
    /\ others.tok.i < Len(others.tok.chars)
    /\ LET sp == NextSpan(others.tok.chars, others.tok.i)
       IN  /\ others' = [others EXCEPT !.tok.spans = Append(@, sp),
                                       !.tok.i = sp.end]
           /\ spans' = Append(spans, sp)
    /\ UNCHANGED <<chars, i, reads, panicked, tpc>>
    /\ UNCHANGED <<normVars, cliVars>>

(* One iteration of the loop of the second colorize_regex. *)
OtherTokStep ==
    /\ others.tok.tpc = "loop"
    /\ others.tok.i < Len(others.tok.chars)
    /\ LET sp == NextSpan(others.tok.chars, others.tok.i)
       IN  others' = [others EXCEPT !.tok.spans = Append(@, sp),
                                    !.tok.i = sp.end]
    /\ UNCHANGED <<tokVars, normVars, cliVars>>

(* The second colorize_regex returns. *)
OtherTokExit ==
    /\ others.tok.tpc = "loop"
    /\ ~(others.tok.i < Len(others.tok.chars))
    /\ others' = [others EXCEPT !.tok.tpc = "done"]
    /\ UNCHANGED <<tokVars, normVars, cliVars>>

(* Regex::new of the second test_pattern. *)
OtherCompile ==
    /\ others.test.npc = "start"
    /\ LET r == RegexNew(others.test.generated.pattern)
       IN  others' =
             [others EXCEPT
                !.test.regex = Some(r),
                !.test.npc = IF r.ok THEN "compiled" ELSE "done",
                !.test.result =
                    IF r.ok THEN @
                    ELSE Err([variant |-> "InvalidRegex", message |-> r.diag])]
    /\ UNCHANGED <<tokVars, normVars, cliVars>>

(* regex.captures and the return of the second test_pattern. *)
OtherCapturesReturn ==
    /\ others.test.npc = "compiled"
    /\ \E c \in RegexCaptures(others.test.regex.val.names, others.test.test_input) :
          others' =
            [others EXCEPT
               !.test.caps = Some(c),
               !.test.npc = "done",
               !.test.result =
                   Ok(TestResult(others.test.generated, others.test.test_input,
                                 IF c.some
                                 THEN Some(MatchDetails(others.test.regex.val.names,
                                                        c.val, others.test.test_input))
                                 ELSE None))]
    /\ UNCHANGED <<tokVars, normVars, cliVars>>

(* The arguments of the calls that run side by side. *)
FirstPatterns ==
    {<<"\\", "d", "^", "+", "|", "{", "3", "}", "[", "a", "]", "(", "b", ")", "c">>,
     <<"(", "?", ":", "a", ")">>}
SecondPatterns == {<<"a", "{", "3", "}">>, <<"[", "^", "]", "a", "]">>}
FirstTests == {"a(b)?", "["} \X {<<"a">>, <<EAcute, "a">>}
SecondTests == {"b", "(abc"} \X {<<"a", "b">>, <<"b">>}

ConcurrentInit ==
    /\ chars \in FirstPatterns
    /\ i = 0
    /\ spans = <<>>
    /\ reads = {}
    /\ panicked = FALSE
    /\ tpc = "loop"
    /\ \E t \in FirstTests :
          /\ generated = MakeGenerated(t[1])
          /\ test_input = t[2]
    /\ regex = None
    /\ caps = None
    /\ match_details = None
    /\ result = NoResult
    /\ engineCalls = <<>>
    /\ npc = "start"
    /\ others \in
          {[tok |-> [chars |-> cs, i |-> 0, spans |-> <<>>, tpc |-> "loop"],
            test |-> [generated |-> MakeGenerated(t[1]),
                      test_input |-> t[2],
                      regex |-> None,
                      caps |-> None,
                      result |-> NoResult,
                      npc |-> "start"]] : cs \in SecondPatterns, t \in SecondTests}
    /\ CliIdle

ConcurrentNext ==
    \/ TokNext
    \/ NormNext
    \/ OtherTokStep
    \/ OtherTokExit
    \/ OtherCompile
    \/ OtherCapturesReturn

(* Two calls of colorize_regex and two of test_pattern, their steps          *)
(* interleaved in every order.                                               *)
SpecConcurrent == ConcurrentInit /\ [][ConcurrentNext]_vars

----------------------------------------------------------------------------
(* strip_markdown_code_block (src/claude.rs)                                 *)
(*                                                                           *)
(* A string is the sequence of its characters. "x" stands for any character *)
(* that is neither white space nor a backtick nor a letter of "json".        *)

WhiteSpace == {" ", "\n"}

(* The backtick, written by its code point. *)
Backtick == "U+0060"

Fence == <<Backtick, Backtick, Backtick>>
FenceJson == <<Backtick, Backtick, Backtick, "j", "s", "o", "n">>

(* str::trim_start, str::trim_end and str::trim. *)
RECURSIVE TrimStart(_)
TrimStart(str) ==
    IF str # <<>> /\ Head(str) \in WhiteSpace THEN TrimStart(Tail(str)) ELSE str

RECURSIVE TrimEnd(_)
TrimEnd(str) ==
    IF str # <<>> /\ str[Len(str)] \in WhiteSpace
    THEN TrimEnd(SubSeq(str, 1, Len(str) - 1))
    ELSE str

Trim(str) == TrimEnd(TrimStart(str))

(* str::starts_with, str::strip_prefix and str::strip_suffix. *)
StartsWith(str, pre) ==
    Len(pre) <= Len(str) /\ SubSeq(str, 1, Len(pre)) = pre

StripPrefix(str, pre) ==
    IF StartsWith(str, pre)
    THEN Some(SubSeq(str, Len(pre) + 1, Len(str)))
    ELSE None

StripSuffix(str, suf) ==
    IF Len(suf) <= Len(str) /\ SubSeq(str, Len(str) - Len(suf) + 1, Len(str)) = suf
    THEN Some(SubSeq(str, 1, Len(str) - Len(suf)))
    ELSE None

(* strip_markdown_code_block taking the opening fence without its json tag. *)
strip_fence_only(str) ==
    LET trimmed == Trim(str)
    IN  IF StartsWith(trimmed, Fence)
        THEN LET content == StripSuffix(StripPrefix(trimmed, Fence).val, Fence)
             IN  IF content.some THEN Trim(content.val) ELSE str
        ELSE str

strip_markdown_code_block(str) ==
    LET trimmed == Trim(str)
    IN  IF StartsWith(trimmed, Fence)
        THEN LET without_start ==
                     IF StripPrefix(trimmed, FenceJson).some
                     THEN StripPrefix(trimmed, FenceJson)
                     ELSE StripPrefix(trimmed, Fence)
                 content == IF without_start.some
                            THEN StripSuffix(without_start.val, Fence)
                            ELSE None
             IN  IF ~without_start.some THEN str
                 ELSE IF content.some THEN Trim(content.val)
                 ELSE str
        ELSE str

(* The pieces the bounded arguments are put together from, and the           *)
(* arguments of the unit tests.                                              *)
MaxPieces == 4

Pieces == {Fence, <<"j", "s", "o", "n">>, <<" ">>, <<"\n">>, <<"x">>, <<Backtick>>}

RECURSIVE Flatten(_)
Flatten(ps) == IF ps = <<>> THEN <<>> ELSE Head(ps) \o Flatten(Tail(ps))

TestStrings ==
    {Flatten(ps) : ps \in
        {<<Fence, <<"j", "s", "o", "n">>, <<"\n">>, <<"x">>, <<"\n">>, Fence>>,
         <<Fence, <<"\n">>, <<"x">>, <<"\n">>, Fence>>,
         <<<<" ">>, <<" ">>, Fence, <<"j", "s", "o", "n">>, <<"\n">>, <<"x">>,
           <<"\n">>, Fence, <<" ">>, <<" ">>>>,
         <<Fence, <<"j", "s", "o", "n">>, <<"\n">>, <<"x">>, <<" ">>, <<"x">>,
           <<"\n">>, Fence>>,
         <<Fence, <<"j", "s", "o", "n">>, <<"\n">>, Fence>>,
         <<<<" ">>, Fence, <<"j", "s", "o", "n">>, <<"\n">>, <<"x">>, <<" ">>>>}}

Strings == {Flatten(ps) : ps \in SeqsUpTo(Pieces, MaxPieces)} \cup TestStrings

(* strip_markdown_code_block called and returning. *)
Strip ==
    /\ ~strip_ret.some
    /\ strip_ret' = Some(strip_markdown_code_block(strip_s))
    /\ UNCHANGED strip_s
    /\ UNCHANGED <<tokVars, normVars, others, queryVars, runVars>>

StripInit ==
    /\ strip_s \in Strings
    /\ strip_ret = None
    /\ TokIdle
    /\ NormIdle
    /\ OthersIdle
    /\ QueryIdle
    /\ RunIdle

StripNext == Strip

(* strip_markdown_code_block on its own. *)
SpecStrip == StripInit /\ [][StripNext]_vars

----------------------------------------------------------------------------
(* Flavor, GenerateCommand and ExplainCommand (src/main.rs,                  *)
(* src/commands/generate.rs, src/commands/explain.rs)                        *)
(*                                                                           *)
(* A prompt is the sequence of the pieces format! puts together: the pieces *)
(* of the template and the arguments between them.                           *)

Flavors == {"Rust", "Js", "Pcre", "Posix"}

(* Flavor::as_str *)
Flavor_as_str(flavor) ==
    CASE flavor = "Rust" -> "rust"
      [] flavor = "Js" -> "javascript"
      [] flavor = "Pcre" -> "pcre"
      [] flavor = "Posix" -> "posix"

(* GenerateCommand::new *)
GenerateCommand_new(flavor) == [flavor |-> flavor]

RustNote ==
    "Note: Rust regex does NOT support lookahead/lookbehind. Use only supported features."
JsNote ==
    "JavaScript regex supports lookahead but not lookbehind in all environments."
PcreNote ==
    "PCRE supports full regex features including lookahead, lookbehind, and recursion."
PosixNote ==
    "POSIX regex is limited - no \\d, \\w shortcuts. Use character classes like [0-9], [a-zA-Z_]."

(* let flavor_note = match self.flavor.as_str() { .. } *)
FlavorNote(flavor) ==
    CASE flavor = "rust" -> RustNote
      [] flavor = "js" -> JsNote
      [] flavor = "pcre" -> PcreNote
      [] flavor = "posix" -> PosixNote
      [] OTHER -> ""

(* GenerateCommand::build_prompt *)
Generate_build_prompt(self, description) ==
    <<"Generate a regex pattern that matches: \"", description,
      "\"\n\nTarget regex flavor: ", self.flavor,
      "\n", FlavorNote(self.flavor),
      "\n\nRespond with ONLY valid JSON, no markdown:\n{\"pattern\": ..}\n\nRequirements:\n- The pattern should be valid for the ",
      self.flavor,
      " regex flavor\n- Provide 2-3 realistic example strings that WILL match\n- Provide 1-2 realistic example strings that will NOT match\n- Keep the explanation concise (1-2 sentences)">>

(* ExplainCommand::build_prompt *)
Explain_build_prompt(pattern) ==
    <<"Explain this regex pattern token by token: ", pattern,
      "\n\nRespond with ONLY valid JSON, no markdown:\n{\"tokens\": ..}\n\nRequirements:\n- Break down EVERY token/component in the pattern\n- ..">>

----------------------------------------------------------------------------
(* Claude::query (src/claude.rs)                                             *)

(* Claude::default *)
ClaudeDefault == [model |-> "haiku"]

(* The arguments given to the claude process. *)
Args(self, p) == <<"-p", p, "--model", self.model, "--output-format", "json">>

(* Replies of the model: JSON texts, each standing in a string as one       *)
(* element that is neither white space nor a backtick.                       *)
GenJson ==
    "{\"pattern\": \"a(b)?\", \"matches\": [], \"non_matches\": [], \"explanation\": \"test pattern\"}"
GenJsonUnclosed ==
    "{\"pattern\": \"[\", \"matches\": [], \"non_matches\": [], \"explanation\": \"test pattern\"}"
ExplainJson == "{\"tokens\": [], \"purpose\": \"p\"}"

(* serde_json::from_slice::<ClaudeResponse> on a few outputs: an error with *)
(* serde's message, or the record, session_id and is_error defaulted when    *)
(* absent.                                                                   *)
ClaudeResponse(res, session_id, is_error) ==
    [ok |-> TRUE, result |-> res, session_id |-> session_id, is_error |-> is_error]

StdoutTable ==
    [ out \in {"", "not json", "{\"is_error\": false}",
               "{\"result\": \"hello\"}",
               "{\"result\": \"error message\", \"is_error\": true}",
               "{\"result\": \"{\\\"pattern\\\": \\\"a(b)?\\\", \\\"matches\\\": [], \\\"non_matches\\\": [], \\\"explanation\\\": \\\"test pattern\\\"}\", \"session_id\": \"abc\", \"is_error\": false}",
               "{\"result\": \" \\u0060\\u0060\\u0060json\\n{\\\"pattern\\\": \\\"a(b)?\\\", \\\"matches\\\": [], \\\"non_matches\\\": [], \\\"explanation\\\": \\\"test pattern\\\"}\\n\\u0060\\u0060\\u0060\\n\"}",
               "{\"result\": \"{\\\"pattern\\\": \\\"[\\\", \\\"matches\\\": [], \\\"non_matches\\\": [], \\\"explanation\\\": \\\"test pattern\\\"}\"}",
               "{\"result\": \"{\\\"tokens\\\": [], \\\"purpose\\\": \\\"p\\\"}\"}"} |->
        CASE out = "" -> [ok |-> FALSE, diag |-> "EOF while parsing a value"]
          [] out = "not json" -> [ok |-> FALSE, diag |-> "expected ident"]
          [] out = "{\"is_error\": false}" -> [ok |-> FALSE, diag |-> "missing field result"]
          [] out = "{\"result\": \"hello\"}" -> ClaudeResponse(<<"hello">>, "", FALSE)
          [] out = "{\"result\": \"error message\", \"is_error\": true}" ->
                ClaudeResponse(<<"error message">>, "", TRUE)
          [] out = "{\"result\": \"{\\\"pattern\\\": \\\"a(b)?\\\", \\\"matches\\\": [], \\\"non_matches\\\": [], \\\"explanation\\\": \\\"test pattern\\\"}\", \"session_id\": \"abc\", \"is_error\": false}" ->
                ClaudeResponse(<<GenJson>>, "abc", FALSE)
          [] out = "{\"result\": \" \\u0060\\u0060\\u0060json\\n{\\\"pattern\\\": \\\"a(b)?\\\", \\\"matches\\\": [], \\\"non_matches\\\": [], \\\"explanation\\\": \\\"test pattern\\\"}\\n\\u0060\\u0060\\u0060\\n\"}" ->
                ClaudeResponse(<<" ">> \o FenceJson \o <<"\n", GenJson, "\n">> \o Fence \o <<"\n">>,
                               "", FALSE)
          [] out = "{\"result\": \"{\\\"pattern\\\": \\\"[\\\", \\\"matches\\\": [], \\\"non_matches\\\": [], \\\"explanation\\\": \\\"test pattern\\\"}\"}" ->
                ClaudeResponse(<<GenJsonUnclosed>>, "", FALSE)
          [] OTHER -> ClaudeResponse(<<ExplainJson>>, "", FALSE) ]

FromSlice(out) == StdoutTable[out]

(* What Command::output may return: an io::Error when the process cannot be *)
(* run, or its exit status, stdout and stderr.                               *)
Outputs ==
    {Err([variant |-> "Io", message |-> "No such file or directory"])} \cup
    {Ok([success |-> ok, stdout |-> out, stderr |-> err]) :
        ok \in BOOLEAN, out \in DOMAIN StdoutTable, err \in {<<>>, <<"boom">>}}

(* What query leaves alone. *)
QueryFrame == UNCHANGED <<tokVars, normVars, others, stripVars, runVars>>

(* Command::new("claude").args([..]).output()? *)
QueryOutput ==
    /\ qpc = "start"
    /\ spawned' = Append(spawned, Args(ClaudeDefault, prompt))
    /\ qlog' = Append(qlog, "output")
    /\ \E o \in Outputs :
          /\ output' = Some(o)
          /\ IF o.kind = "Err"
             THEN qret' = o /\ qpc' = "done"
             ELSE qret' = qret /\ qpc' = "spawned"
    /\ UNCHANGED <<prompt, response>>
    /\ QueryFrame

(* query reading stdout whatever the exit status. *)
QueryCheckStatusIgnored ==
    /\ qpc = "spawned"
    /\ qret' = qret
    /\ qpc' = "succeeded"
    /\ UNCHANGED <<prompt, spawned, output, response, qlog>>
    /\ QueryFrame

(* if !output.status.success() { return Err(Error::Claude(stderr)) } *)
QueryCheckStatus ==
    /\ qpc = "spawned"
    /\ IF ~output.val.value.success
       THEN /\ qret' = Err([variant |-> "Claude", message |-> output.val.value.stderr])
            /\ qpc' = "done"
       ELSE /\ qret' = qret
            /\ qpc' = "succeeded"
    /\ UNCHANGED <<prompt, spawned, output, response, qlog>>
    /\ QueryFrame

(* let response: ClaudeResponse = serde_json::from_slice(&output.stdout)?; *)
QueryFromSlice ==
    /\ qpc = "succeeded"
    /\ qlog' = Append(qlog, "from_slice")
    /\ LET r == FromSlice(output.val.value.stdout)
       IN  IF r.ok
           THEN /\ response' = Some(r)
                /\ qret' = qret
                /\ qpc' = "parsed"
           ELSE /\ response' = response
                /\ qret' = Err([variant |-> "Parse", source |-> r.diag])
                /\ qpc' = "done"
    /\ UNCHANGED <<prompt, spawned, output>>
    /\ QueryFrame

(* if response.is_error { return Err(Error::Claude(response.result)) }      *)
(* Ok(strip_markdown_code_block(&response.result))                           *)
QueryReturn ==
    /\ qpc = "parsed"
    /\ IF response.val.is_error
       THEN /\ qret' = Err([variant |-> "Claude", message |-> response.val.result])
            /\ qlog' = qlog
       ELSE /\ qret' = Ok(strip_markdown_code_block(response.val.result))
            /\ qlog' = Append(qlog, "strip_markdown_code_block")
    /\ qpc' = "done"
    /\ UNCHANGED <<prompt, spawned, output, response>>
    /\ QueryFrame

QueryNext ==
    \/ QueryOutput
    \/ QueryCheckStatus
    \/ QueryFromSlice
    \/ QueryReturn

(* The prompts query is called with. *)
QueryPrompts ==
    {Generate_build_prompt(GenerateCommand_new(Flavor_as_str(f)), "email") : f \in Flavors}
    \cup {Explain_build_prompt("\\d+")}

QueryInit ==
    /\ prompt \in QueryPrompts
    /\ spawned = <<>>
    /\ output = None
    /\ response = None
    /\ qret = NoResult
    /\ qlog = <<>>
    /\ qpc = "start"
    /\ TokIdle
    /\ NormIdle
    /\ OthersIdle
    /\ StripIdle
    /\ RunIdle

(* A call of Claude::query on its own. *)
SpecQuery == QueryInit /\ [][QueryNext]_vars

----------------------------------------------------------------------------
(* run (src/main.rs)                                                         *)

(* Command::parse_response, serde_json::from_str into GenerateResponse or   *)
(* ExplainResponse, on the replies above; any other text is an error.        *)
ParseGenerate(text) ==
    CASE text = <<GenJson>> -> Ok(MakeGenerated("a(b)?"))
      [] text = <<GenJsonUnclosed>> -> Ok(MakeGenerated("["))
      [] text = <<ExplainJson>> -> Err([variant |-> "Parse", source |-> "missing field pattern"])
      [] OTHER -> Err([variant |-> "Parse", source |-> "expected value"])

ParseExplain(text) ==
    CASE text = <<ExplainJson>> -> Ok([tokens |-> <<>>, purpose |-> "p"])
      [] text \in {<<GenJson>>, <<GenJsonUnclosed>>} ->
            Err([variant |-> "Parse", source |-> "missing field tokens"])
      [] OTHER -> Err([variant |-> "Parse", source |-> "expected value"])

(* output::format_generate, format_explain and format_test: the text        *)
(* println! writes, kept as the formatter, its argument and the raw flag.    *)
Format(formatter, value, raw) == [formatter |-> formatter, value |-> value, raw |-> raw]

(* What run leaves alone when it calls nothing. *)
RunFrame == UNCHANGED <<tokVars, normVars, others, stripVars, queryVars>>

(* validate_flags refusing raw with explain as well. *)
RunValidateFlagsNoRaw ==
    /\ rpc = "start"
    /\ rlog' = Append(rlog, "validate_flags")
    /\ IF cli.explain /\ (cli.test.some \/ cli.raw)
       THEN /\ rret' = Err([variant |-> "InvalidFlags",
                            message |-> <<"Cannot combine -e (explain) and -t (test) flags">>])
            /\ rpc' = "done"
       ELSE /\ rret' = rret
            /\ rpc' = "validated"
    /\ UNCHANGED <<cli, parsed, printed>>
    /\ RunFrame

(* validate_flags(&cli)?; *)
RunValidateFlags ==
    /\ rpc = "start"
    /\ rlog' = Append(rlog, "validate_flags")
    /\ IF cli.explain /\ cli.test.some
       THEN /\ rret' = Err([variant |-> "InvalidFlags",
                            message |-> <<"Cannot combine -e (explain) and -t (test) flags">>])
            /\ rpc' = "done"
       ELSE /\ rret' = rret
            /\ rpc' = "validated"
    /\ UNCHANGED <<cli, parsed, printed>>
    /\ RunFrame

(* let input = cli.input.ok_or_else(|| Error::InvalidFlags(..))?; *)
RunInput ==
    /\ rpc = "validated"
    /\ rlog' = Append(rlog, "input")
    /\ IF ~cli.input.some
       THEN /\ rret' = Err([variant |-> "InvalidFlags", message |-> <<"No input provided">>])
            /\ rpc' = "done"
       ELSE /\ rret' = rret
            /\ rpc' = "input"
    /\ UNCHANGED <<cli, parsed, printed>>
    /\ RunFrame

(* let prompt = cmd.build_prompt(&input); in the branch of the mode. *)
RunBuildPrompt ==
    /\ rpc = "input"
    /\ rlog' = Append(rlog, "build_prompt")
    /\ prompt' =
          IF cli.explain
          THEN Explain_build_prompt(cli.input.val)
          ELSE Generate_build_prompt(GenerateCommand_new(Flavor_as_str(cli.flavor)),
                                     cli.input.val)
    /\ rpc' = "prompt"
    /\ UNCHANGED <<cli, parsed, printed, rret>>
    /\ UNCHANGED <<spawned, output, response, qret, qlog, qpc>>
    /\ UNCHANGED <<tokVars, normVars, others, stripVars>>

(* claude.query(&prompt): the call. *)
RunQuery ==
    /\ rpc = "prompt"
    /\ qpc = "idle"
    /\ rlog' = Append(rlog, "query")
    /\ qpc' = "start"
    /\ rpc' = "query"
    /\ UNCHANGED <<cli, parsed, printed, rret>>
    /\ UNCHANGED <<prompt, spawned, output, response, qret, qlog>>
    /\ UNCHANGED <<tokVars, normVars, others, stripVars>>

(* let response = claude.query(&prompt)?; the return. *)
RunQueryReturned ==
    /\ rpc = "query"
    /\ qpc = "done"
    /\ IF qret.kind = "Err"
       THEN /\ rret' = qret
            /\ rpc' = "done"
       ELSE /\ rret' = rret
            /\ rpc' = "response"
    /\ UNCHANGED <<cli, parsed, printed, rlog>>
    /\ RunFrame

(* let parsed = cmd.parse_response(&response)?; *)
RunParseResponse ==
    /\ rpc = "response"
    /\ rlog' = Append(rlog, "parse_response")
    /\ LET r == IF cli.explain THEN ParseExplain(qret.value) ELSE ParseGenerate(qret.value)
       IN  /\ parsed' = r
           /\ IF r.kind = "Err"
              THEN rret' = r /\ rpc' = "done"
              ELSE rret' = rret /\ rpc' = "parsed"
    /\ UNCHANGED <<cli, printed>>
    /\ RunFrame

(* println!("{}", output::format_explain(..)) or format_generate(..), and    *)
(* Ok(()).                                                                   *)
RunPrint ==
    /\ rpc = "parsed"
    /\ cli.explain \/ ~cli.test.some
    /\ rlog' = Append(rlog, "println")
    /\ printed' = Append(printed,
                         Format(IF cli.explain THEN "format_explain" ELSE "format_generate",
                                parsed.value, cli.raw))
    /\ rret' = Ok(<<>>)
    /\ rpc' = "done"
    /\ UNCHANGED <<cli, parsed>>
    /\ RunFrame

(* TestCommand::new(test_input) and test_cmd.test_pattern(&generated): the  *)
(* call.                                                                     *)
RunTestPattern ==
    /\ rpc = "parsed"
    /\ ~cli.explain /\ cli.test.some
    /\ npc = "idle"
    /\ rlog' = Append(rlog, "test_pattern")
    /\ generated' = parsed.value
    /\ test_input' = cli.test.val
    /\ npc' = "start"
    /\ rpc' = "test"
    /\ UNCHANGED <<cli, parsed, printed, rret>>
    /\ UNCHANGED <<regex, caps, match_details, result, engineCalls>>
    /\ UNCHANGED <<tokVars, others, stripVars, queryVars>>

(* let result = test_cmd.test_pattern(&generated)?; the return, then         *)
(* println!("{}", output::format_test(&result, cli.raw)) and Ok(()).         *)
RunTestReturned ==
    /\ rpc = "test"
    /\ npc = "done"
    /\ IF result.kind = "Err"
       THEN /\ rret' = result
            /\ printed' = printed
            /\ rlog' = rlog
       ELSE /\ rret' = Ok(<<>>)
            /\ printed' = Append(printed, Format("format_test", result.value, cli.raw))
            /\ rlog' = Append(rlog, "println")
    /\ rpc' = "done"
    /\ UNCHANGED <<cli, parsed>>
    /\ RunFrame

(* The command lines run is given: clap has filled every field. *)
Clis ==
    [input : {None, Some("email")},
     explain : BOOLEAN,
     test : {None, Some(<<"a", "b">>)},
     raw : BOOLEAN,
     flavor : Flavors]

RunInit ==
    /\ cli \in Clis
    /\ parsed = NoResult
    /\ printed = <<>>
    /\ rlog = <<>>
    /\ rret = NoResult
    /\ rpc = "start"
    /\ TokIdle
    /\ NormIdle
    /\ OthersIdle
    /\ StripIdle
    /\ QueryIdle

RunNext ==
    \/ RunValidateFlags
    \/ RunInput
    \/ RunBuildPrompt
    \/ RunQuery
    \/ QueryNext
    \/ RunQueryReturned
    \/ RunParseResponse
    \/ RunPrint
    \/ RunTestPattern
    \/ NormNext
    \/ RunTestReturned

(* run from its entry to its return, the calls of Claude::query and of       *)
(* test_pattern it makes included.                                           *)
SpecRun == RunInit /\ [][RunNext]_vars

----------------------------------------------------------------------------
(* Claims about test_pattern *)

(* The engine found a match, and the groups it reports as taking part. *)
EngineMatched == caps.some /\ caps.val.some
GroupCount == Len(regex.val.names) - 1
Participating == {k \in 1..GroupCount : CapsGet(caps.val.val, k).some}
EmittedGroups == match_details.val.groups
Returned == npc = "done" /\ result.kind = "Ok"

(* C3: in a match, the groups list holds exactly one entry of index k for    *)
(* every group k of 1..N that took part, none for a group that did not, and  *)
(* none of index 0; the outcome returned carries that list.                  *)
C3_SparseGroups ==
    /\ match_details.some <=> EngineMatched
    /\ match_details.some =>
          /\ \A k \in 1..GroupCount :
                Cardinality({p \in 1..Len(EmittedGroups) : EmittedGroups[p].index = k})
                    = IF k \in Participating THEN 1 ELSE 0
          /\ \A p \in 1..Len(EmittedGroups) : EmittedGroups[p].index \in 1..GroupCount
          /\ Len(EmittedGroups) = Cardinality(Participating)
    /\ Returned => result.value.match_details = match_details

C3_Witness ==
    /\ Returned
    /\ EngineMatched
    /\ generated.pattern = "a(b)?"
    /\ test_input = <<"a">>
    /\ result.value.matches
    /\ CapsGet(caps.val.val, 0) = Some([start |-> 0, end |-> 1])
    /\ Participating = {}
    /\ result.value.match_details.val.groups = <<>>

(* C4: the index of an entry is the declared number of its group: the entry  *)
(* at list position p is the p-th group, in declaration order, that took     *)
(* part, and carries that group's text, whatever p is.                       *)
C4_DeclaredIndex ==
    match_details.some =>
        \A p \in 1..Len(EmittedGroups) :
            LET k == EmittedGroups[p].index
            IN  /\ k \in Participating
                /\ Cardinality({j \in Participating : j <= k}) = p
                /\ EmittedGroups[p].value
                      = AsStr(test_input, CapsGet(caps.val.val, k).val)

C4_Witness ==
    /\ Returned
    /\ EngineMatched
    /\ generated.pattern = "(a)?(b)"
    /\ test_input = <<"b">>
    /\ CapsGet(caps.val.val, 0) = Some([start |-> 0, end |-> 1])
    /\ CapsGet(caps.val.val, 1) = None
    /\ CapsGet(caps.val.val, 2) = Some([start |-> 0, end |-> 1])
    /\ result.value.match_details.val.groups = <<GroupCapture(2, None, <<"b">>)>>

(* C5: in a match, the groups list is strictly ascending by index. *)
C5_Ascending ==
    match_details.some =>
        \A p \in 1..(Len(EmittedGroups) - 1) :
            EmittedGroups[p].index < EmittedGroups[p + 1].index

C5_Witness ==
    /\ Returned
    /\ EngineMatched
    /\ generated.pattern = "(a)?(b)"
    /\ test_input = <<"a", "b">>
    /\ CapsGet(caps.val.val, 0) = Some([start |-> 0, end |-> 2])
    /\ CapsGet(caps.val.val, 1) = Some([start |-> 0, end |-> 1])
    /\ CapsGet(caps.val.val, 2) = Some([start |-> 1, end |-> 2])
    /\ Len(result.value.match_details.val.groups) = 2
    /\ result.value.match_details.val.groups[1].index = 1
    /\ result.value.match_details.val.groups[2].index = 2

(* C6: when Regex::new rejects the pattern, test_pattern returns the         *)
(* InvalidRegex error with the engine's message, builds no outcome and no    *)
(* match details, and never calls captures.                                  *)
C6_CompileFailure ==
    regex.some /\ ~regex.val.ok =>
        /\ npc = "done"
        /\ result = Err([variant |-> "InvalidRegex", message |-> regex.val.diag])
        /\ engineCalls = <<"Regex::new">>
        /\ caps = None
        /\ match_details = None

C6_Witness ==
    /\ npc = "done"
    /\ generated.pattern = "(abc"
    /\ test_input = <<"a">>
    /\ result.kind = "Err"
    /\ result.error.message = "unclosed group"

(* C7: test_pattern returns an error exactly when the pattern does not       *)
(* compile; otherwise it returns an outcome whose matches is true exactly    *)
(* when the engine found a match and whose match_details is present exactly  *)
(* when matches is true.                                                     *)
C7_ErrorIffCompileFails ==
    npc = "done" =>
        /\ result.kind \in {"Ok", "Err"}
        /\ (result.kind = "Err") <=> ~regex.val.ok
        /\ result.kind = "Ok" =>
              /\ result.value.matches <=> EngineMatched
              /\ result.value.match_details.some <=> result.value.matches

C7_Witness ==
    /\ Returned
    /\ regex.val.ok
    /\ ~EngineMatched
    /\ ~result.value.matches
    /\ result.value.match_details = None
    /\ generated.pattern = "b"
    /\ test_input = <<"a">>

(* The groups a pattern declares with a name: <<index, name>>. *)
NamedGroups(pattern) ==
    IF pattern = "(?P<first>a)(b)?" THEN {<<1, "first">>} ELSE {}

(* C14: an entry has a name exactly when the pattern declares the group of   *)
(* its index with a name, and then it is that name; a positional group has   *)
(* none, also beside a named one.                                            *)
C14_Names ==
    match_details.some =>
        \A p \in 1..Len(EmittedGroups) :
            LET e == EmittedGroups[p]
            IN  /\ e.name.some <=> (\E d \in NamedGroups(generated.pattern) : d[1] = e.index)
                /\ e.name.some => <<e.index, e.name.val>> \in NamedGroups(generated.pattern)

C14_Witness ==
    /\ Returned
    /\ EngineMatched
    /\ generated.pattern = "(?P<first>a)(b)?"
    /\ test_input = <<"a", "b">>
    /\ CapsGet(caps.val.val, 0) = Some([start |-> 0, end |-> 2])
    /\ result.value.match_details.val.groups
          = <<GroupCapture(1, Some("first"), <<"a">>), GroupCapture(2, None, <<"b">>)>>

(* The characters of str whose first byte lies at an offset in [a, b). *)
RECURSIVE CharsWithin(_, _, _, _)
CharsWithin(str, a, b, at) ==
    IF str = <<>> THEN <<>>
    ELSE (IF a <= at /\ at < b THEN <<str[1]>> ELSE <<>>)
            \o CharsWithin(Tail(str), a, b, at + ByteWidth(str[1]))

(* C15: in a match, start and end are those of capture 0, with               *)
(* 0 <= start <= end <= the length of the test input in the engine's unit    *)
(* (bytes), full_match is the test input between them, every entry's value   *)
(* is the text of its group, and an empty match has an empty full_match.     *)
C15_WholeMatch ==
    match_details.some =>
        LET md == match_details.val
            whole == CapsGet(caps.val.val, 0).val
        IN  /\ md.start = whole.start /\ md.end = whole.end
            /\ 0 <= md.start /\ md.start <= md.end /\ md.end <= ByteLen(test_input)
            /\ md.full_match = CharsWithin(test_input, md.start, md.end, 0)
            /\ md.start = md.end => md.full_match = <<>>
            /\ \A p \in 1..Len(md.groups) :
                  LET m == CapsGet(caps.val.val, md.groups[p].index).val
                  IN  md.groups[p].value = CharsWithin(test_input, m.start, m.end, 0)

C15_Witness ==
    /\ Returned
    /\ EngineMatched
    /\ generated.pattern = "b"
    /\ test_input = <<EAcute, "b">>
    /\ result.value.match_details.val
          = [full_match |-> <<"b">>, groups |-> <<>>, start |-> 2, end |-> 3]

(* C16 as stated: every entry carries, beside index, name and value, a span  *)
(* of offsets into the test input, and value is the input at that span.      *)
C16_AsStated ==
    match_details.some =>
        \A p \in 1..Len(EmittedGroups) :
            LET e == EmittedGroups[p]
            IN  /\ {"index", "name", "value", "span"} \subseteq DOMAIN e
                /\ e.value = CharsWithin(test_input, e.span.start, e.span.end, 0)

(* C16 amended: every entry carries index, name and value and nothing else   *)
(* (no span, no offsets); value is the test input at the span the engine     *)
(* reports for the group of that index.                                      *)
C16_NoSpan ==
    match_details.some =>
        \A p \in 1..Len(EmittedGroups) :
            LET e == EmittedGroups[p]
                m == CapsGet(caps.val.val, e.index).val
            IN  /\ DOMAIN e = {"index", "name", "value"}
                /\ e.value = CharsWithin(test_input, m.start, m.end, 0)

C16_Witness ==
    /\ Returned
    /\ EngineMatched
    /\ generated.pattern = "(a)?(b)"
    /\ test_input = <<EAcute, "b">>
    /\ CapsGet(caps.val.val, 2) = Some([start |-> 2, end |-> 3])
    /\ result.value.match_details.val.groups = <<GroupCapture(2, None, <<"b">>)>>
    /\ "span" \notin DOMAIN result.value.match_details.val.groups[1]

(* The calls of the engine's match step made so far. *)
MatchSteps == {k \in 1..Len(engineCalls) : engineCalls[k] = "captures"}

(* C17: the outcome is matched exactly when the engine's one answer is a     *)
(* match, wherever in the input that match lies, and then carries that       *)
(* match's own start and end offsets; the engine's match step is called at   *)
(* most once per call.                                                       *)
C17_EngineMatch ==
    /\ Cardinality(MatchSteps) <= 1
    /\ caps.some => Cardinality(MatchSteps) = 1
    /\ Returned =>
          /\ result.value.matches <=> EngineMatched
          /\ result.value.match_details.some <=> EngineMatched
          /\ EngineMatched =>
                LET whole == CapsGet(caps.val.val, 0).val
                IN  /\ result.value.match_details.val.start = whole.start
                    /\ result.value.match_details.val.end = whole.end

C17_Witness ==
    /\ Returned
    /\ EngineMatched
    /\ generated.pattern = "b"
    /\ test_input = <<"a", "b">>
    /\ CapsGet(caps.val.val, 0) = Some([start |-> 1, end |-> 2])
    /\ result.value.matches
    /\ result.value.match_details.val.start = 1
    /\ result.value.match_details.val.end = 2
    /\ engineCalls = <<"Regex::new", "captures">>

(* The outcome returned repeats the pattern of the generated record, the     *)
(* test input and the generated record it was called with.                   *)
EchoesInputs ==
    Returned =>
        /\ result.value.pattern = generated.pattern
        /\ result.value.test_input = test_input
        /\ result.value.generated = generated

(* C19: every outcome returned, matched or not, echoes the pattern, the test *)
(* input and the generated record of the call, and no step of the call       *)
(* changes the caller's generated record or test input.                      *)
C19_Echo ==
    /\ []EchoesInputs
    /\ [][generated' = generated /\ test_input' = test_input]_vars

C19_Witness ==
    /\ Returned
    /\ caps = Some(None)
    /\ generated = MakeGenerated("(a)|(b)")
    /\ test_input = <<EAcute>>
    /\ ~result.value.matches
    /\ result.value.pattern = "(a)|(b)"
    /\ result.value.test_input = <<EAcute>>
    /\ result.value.generated = MakeGenerated("(a)|(b)")

(* What test_pattern returns when it runs alone on gen and input, the       *)
(* engine answering rx to Regex::new and cp to captures.                     *)
AloneTest(gen, input, rx, cp) ==
    IF ~rx.val.ok
    THEN Err([variant |-> "InvalidRegex", message |-> rx.val.diag])
    ELSE Ok(TestResult(gen, input,
                       IF cp.val.some
                       THEN Some(MatchDetails(rx.val.names, cp.val.val, input))
                       ELSE None))

(* Every call that has returned, returned what it returns when run alone on *)
(* its own arguments.                                                        *)
ResultsAsAlone ==
    /\ tpc = "done" => spans = Tokenize(chars)
    /\ others.tok.tpc = "done" => others.tok.spans = Tokenize(others.tok.chars)
    /\ npc = "done" =>
          /\ regex = Some(RegexNew(generated.pattern))
          /\ result = AloneTest(generated, test_input, regex, caps)
    /\ others.test.npc = "done" =>
          /\ others.test.regex = Some(RegexNew(others.test.generated.pattern))
          /\ others.test.result =
                AloneTest(others.test.generated, others.test.test_input,
                          others.test.regex, others.test.caps)

(* A step changes the variables of one call only, and the arguments of none. *)
OneCallPerStep ==
    /\ tokVars' # tokVars => UNCHANGED <<normVars, others>>
    /\ normVars' # normVars => UNCHANGED <<tokVars, others>>
    /\ others'.tok # others.tok =>
          /\ UNCHANGED <<tokVars, normVars, cliVars>>
          /\ others'.test = others.test
    /\ others'.test # others.test =>
          /\ UNCHANGED <<tokVars, normVars, cliVars>>
          /\ others'.tok = others.tok
    /\ UNCHANGED <<chars, generated, test_input>>
    /\ others'.tok.chars = others.tok.chars
    /\ others'.test.generated = others.test.generated
    /\ others'.test.test_input = others.test.test_input

----------------------------------------------------------------------------
(* Claims about colorize_regex *)

RECURSIVE ConcatTexts(_)
ConcatTexts(ss) ==
    IF ss = <<>> THEN <<>> ELSE ss[1].text \o ConcatTexts(Tail(ss))

(* C1: the pieces emitted so far partition chars[0..i): the first starts at  *)
(* 0, each is non-empty, each ends where the next starts, the last ends at   *)
(* i, their texts concatenated are chars[0..i), and on return i is the       *)
(* length of the pattern; the empty pattern yields no piece.                 *)
C1_Partition ==
    /\ (spans = <<>>) <=> (i = 0)
    /\ spans # <<>> => spans[1].start = 0 /\ spans[Len(spans)].end = i
    /\ \A k \in 1..Len(spans) :
          /\ 0 <= spans[k].start
          /\ spans[k].start < spans[k].end
          /\ spans[k].end <= Len(chars)
          /\ spans[k].text = Slice(chars, spans[k].start, spans[k].end)
    /\ \A k \in 1..(Len(spans) - 1) : spans[k].end = spans[k + 1].start
    /\ ConcatTexts(spans) = Slice(chars, 0, i)
    /\ tpc = "done" => i = Len(chars) /\ ConcatTexts(spans) = chars

C1_Witness ==
    /\ tpc = "done"
    /\ Len(spans) >= 3
    /\ \E k \in 1..Len(spans) : spans[k].end - spans[k].start >= 3
    /\ \E k \in 1..Len(spans) : spans[k].end - spans[k].start = 2

(* The scan never reads outside the pattern and never panics, i never        *)
(* exceeds the length, every iteration increases i, the loop is left only    *)
(* with i equal to the length, and until it is left an iteration or the     *)
(* exit can always be taken (so the growing i, bounded by the length, ends   *)
(* the loop).                                                                *)
C2_ScanSafe ==
    /\ ~panicked
    /\ i <= Len(chars)
    /\ \A k \in reads : 0 <= k /\ k < Len(chars)
    /\ tpc = "done" => i = Len(chars)
    /\ tpc = "loop" /\ i = Len(chars) => ENABLED Exit
    /\ tpc = "done" \/ ENABLED TokNext

(* C2: the scan is safe in every state, and every iteration of the loop      *)
(* strictly increases i, for every pattern, well-formed or not.              *)
C2_Terminates ==
    /\ []C2_ScanSafe
    /\ [][tpc' = "loop" => i' > i]_vars

C2_Witness ==
    /\ tpc = "done"
    /\ Len(chars) = 4
    /\ chars[1] = "[" /\ chars[2] = "^" /\ chars[4] = "\\"
    /\ spans[1].category = "Literal"
    /\ i = Len(chars)

(* The number of backslashes that directly precede index p, none before lo. *)
RECURSIVE BackslashRun(_, _, _)
BackslashRun(cs, p, lo) ==
    IF p - 1 >= lo /\ cs[p] = "\\" THEN 1 + BackslashRun(cs, p - 1, lo) ELSE 0

(* A character at p is escaped when an odd run of backslashes precedes it. *)
Escaped(cs, p, lo) == BackslashRun(cs, p, lo) % 2 = 1

Min(S) == CHOOSE x \in S : \A y \in S : x <= y

(* The first content character of a set opened at s, after a leading ^. *)
FirstContent(cs, s) ==
    IF s + 1 < Len(cs) /\ cs[s + 2] = "^" THEN s + 2 ELSE s + 1

(* The closing brackets of a set opened at s that no backslash escapes. *)
SetClosers(cs, from) ==
    {p \in from..(Len(cs) - 1) : cs[p + 1] = "]" /\ ~Escaped(cs, p, from)}

(* The pieces that start at character c. *)
SpansAt(c) == {k \in 1..Len(spans) : chars[spans[k].start + 1] = c}

OneSpan(cat) ==
    /\ Len(spans) = 1
    /\ spans[1] = Span(0, Len(chars), cat, chars)

(* C8: a set opened at [ is not closed by a ^ right after the [ nor by a ]   *)
(* that is its first content character: the CharacterSet piece ends at the   *)
(* first closing bracket after these, and when there is none the [ is not    *)
(* the start of a CharacterSet piece.                                        *)
C8_SetPrefix ==
    /\ \A k \in SpansAt("[") :
          LET s == spans[k].start
              c == FirstContent(chars, s)
              from == IF c < Len(chars) /\ chars[c + 1] = "]" THEN c + 1 ELSE c
              closers == SetClosers(chars, from)
          IN  IF closers = {}
              THEN spans[k].category # "CharacterSet"
              ELSE /\ spans[k].category = "CharacterSet"
                   /\ spans[k].end = Min(closers) + 1
                   /\ spans[k].end - 1 >= from
    /\ \A k \in 1..Len(spans) :
          spans[k].category = "CharacterSet" => k \in SpansAt("[")
    /\ tpc = "done" /\ chars \in {<<"[", "]", "a", "b", "c", "]">>,
                                   <<"[", "^", "]", "a", "b", "c", "]">>,
                                   <<"[", "]", "a", "]">>, <<"[", "^", "]", "]">>}
          => OneSpan("CharacterSet")
    /\ tpc = "done" /\ chars \in {<<"[", "]">>, <<"[", "^", "]">>}
          => \A k \in 1..Len(spans) : spans[k].category # "CharacterSet"

C8_Witness ==
    /\ tpc = "done"
    /\ chars = <<"[", "^", "]", "a", "b", "c", "]">>
    /\ OneSpan("CharacterSet")

(* C9: the search for the closing bracket steps over a backslash and the     *)
(* character after it as one unit, so a CharacterSet piece never ends at a   *)
(* bracket that such a backslash escapes, and it ends at the first bracket   *)
(* that none escapes.                                                        *)
C9_SetEscape ==
    /\ \A k \in 1..Len(spans) :
          spans[k].category = "CharacterSet" =>
              LET s == spans[k].start
                  from == SetPrefix(chars, s).end
                  e == spans[k].end - 1
              IN  /\ chars[e + 1] = "]"
                  /\ ~Escaped(chars, e, from)
                  /\ \A p \in from..(e - 1) :
                        chars[p + 1] = "]" => Escaped(chars, p, from)
    /\ tpc = "done" /\ chars \in {<<"[", "a", "\\", "]", "b", "]">>, <<"[", "\\", "]", "]">>}
          => OneSpan("CharacterSet")
    /\ tpc = "done" /\ chars \in {<<"[", "a", "\\", "]">>, <<"[", "\\", "]">>}
          => \A k \in 1..Len(spans) : spans[k].category # "CharacterSet"

C9_Witness ==
    /\ tpc = "done"
    /\ chars = <<"[", "a", "\\", "]", "b", "]">>
    /\ OneSpan("CharacterSet")

(* The closing braces after s that no backslash escapes, and all of them. *)
UnescapedBraces(cs, s) ==
    {p \in (s + 1)..(Len(cs) - 1) : cs[p + 1] = "}" /\ ~Escaped(cs, p, s + 1)}

AllBraces(cs, s) == {p \in (s + 1)..(Len(cs) - 1) : cs[p + 1] = "}"}

(* C10 as stated: the QuantifierRange piece opened at { ends at the next     *)
(* closing brace that no backslash escapes, and a { with no such brace       *)
(* after it does not start a QuantifierRange piece.                          *)
C10_AsStated ==
    \A k \in SpansAt("{") :
        LET closers == UnescapedBraces(chars, spans[k].start)
        IN  IF closers = {}
            THEN spans[k].category # "QuantifierRange"
            ELSE /\ spans[k].category = "QuantifierRange"
                 /\ spans[k].end = Min(closers) + 1

(* C10 amended: the QuantifierRange piece opened at { ends at the next       *)
(* closing brace, whether or not a backslash precedes it; a { with no        *)
(* closing brace at all after it does not start a QuantifierRange piece.     *)
C10_NextBrace ==
    /\ \A k \in SpansAt("{") :
          LET closers == AllBraces(chars, spans[k].start)
          IN  IF closers = {}
              THEN spans[k].category # "QuantifierRange"
              ELSE /\ spans[k].category = "QuantifierRange"
                   /\ spans[k].end = Min(closers) + 1
    /\ \A k \in 1..Len(spans) :
          spans[k].category = "QuantifierRange" => k \in SpansAt("{")
    /\ tpc = "done" /\ chars = <<"{", "\\", "}">> => OneSpan("QuantifierRange")

C10_Witness ==
    /\ tpc = "done"
    /\ chars = <<"{", "\\", "}", "}">>
    /\ Len(spans) = 2
    /\ spans[1] = Span(0, 3, "QuantifierRange", <<"{", "\\", "}">>)
    /\ spans[2] = Span(3, 4, "Literal", <<"}">>)

(* The pieces ss moved d characters to the right. *)
Shifted(ss, d) ==
    [k \in 1..Len(ss) |->
        Span(ss[k].start + d, ss[k].end + d, ss[k].category, ss[k].text)]

(* The piece k is an opener alone, uncoloured, and what follows it is the    *)
(* tokenization of the rest of the pattern taken on its own.                 *)
FailedOpener(k) ==
    LET s == spans[k].start
    IN  /\ spans[k] = Span(s, s + 1, "Literal", <<chars[s + 1]>>)
        /\ k < Len(spans) => spans[k + 1].start = s + 1
        /\ k = Len(spans) => i = s + 1
        /\ tpc = "done" =>
              SubSeq(spans, k + 1, Len(spans))
                  = Shifted(Tokenize(Slice(chars, s + 1, Len(chars))), s + 1)

(* C11: a { with no } after it, and a [ with no closing ] after it, is       *)
(* emitted alone as a one-character Literal piece, i moves on by one, and    *)
(* the rest of the pattern is tokenized as it would be on its own.           *)
C11_FallBack ==
    /\ \A k \in SpansAt("{") :
          AllBraces(chars, spans[k].start) = {} => FailedOpener(k)
    /\ \A k \in SpansAt("[") :
          LET c == FirstContent(chars, spans[k].start)
              from == IF c < Len(chars) /\ chars[c + 1] = "]" THEN c + 1 ELSE c
          IN  SetClosers(chars, from) = {} => FailedOpener(k)

C11_Witness ==
    /\ tpc = "done"
    /\ chars = <<"[", "a", "b", "c", "{", "3", "}", "\\", "d">>
    /\ Len(spans) = 6
    /\ spans[1] = Span(0, 1, "Literal", <<"[">>)
    /\ spans[5] = Span(4, 7, "QuantifierRange", <<"{", "3", "}">>)
    /\ spans[6] = Span(7, 9, "CharClassShorthand", <<"\\", "d">>)

(* C12: a backslash met by the loop with a character c after it is one       *)
(* two-character piece, CharClassShorthand for c in d D w W s S, Anchor for  *)
(* c in b B A z Z, Literal for any other c, so that no piece starts at c;    *)
(* a backslash that ends the pattern is a one-character Literal piece.       *)
C12_Escapes ==
    /\ \A k \in SpansAt("\\") :
          LET s == spans[k].start
          IN  IF s + 1 < Len(chars)
              THEN LET c == chars[s + 2]
                   IN  /\ spans[k].end = s + 2
                       /\ spans[k].text = <<"\\", c>>
                       /\ spans[k].category =
                             IF c \in {"d", "D", "w", "W", "s", "S"} THEN "CharClassShorthand"
                             ELSE IF c \in {"b", "B", "A", "z", "Z"} THEN "Anchor"
                             ELSE "Literal"
                       /\ \A j \in 1..Len(spans) : spans[j].start # s + 1
              ELSE spans[k] = Span(s, s + 1, "Literal", <<"\\">>)
    /\ tpc = "done" /\ chars = <<"\\", "[", "a", "b", "c", "\\", "]">> =>
          /\ Len(spans) = 5
          /\ \A k \in 1..5 : spans[k].category = "Literal"

C12_Witness ==
    /\ tpc = "done"
    /\ chars = <<"\\", "[", "a", "b", "c", "\\", "]">>
    /\ Len(spans) = 5
    /\ spans[1] = Span(0, 2, "Literal", <<"\\", "[">>)
    /\ spans[5] = Span(5, 7, "Literal", <<"\\", "]">>)

(* The pieces' categories, in order. *)
Categories == [k \in 1..Len(spans) |-> spans[k].category]

(* C13: a piece that is neither a two-character escape, a QuantifierRange    *)
(* nor a CharacterSet is one character long, with category Anchor for ^ and  *)
(* $, Quantifier for + * ?, Alternation for |, GroupDelimiter for ( and ),   *)
(* Literal for any other character; ^\d{3}-\d{4}$ gives Anchor,              *)
(* CharClassShorthand, QuantifierRange, Literal, CharClassShorthand,         *)
(* QuantifierRange, Anchor.                                                  *)
C13_SingleCharacters ==
    /\ \A k \in 1..Len(spans) :
          LET s == spans[k].start
              c == chars[s + 1]
              escape == c = "\\" /\ spans[k].end = s + 2
          IN  ~escape /\ spans[k].category \notin {"QuantifierRange", "CharacterSet"} =>
                  /\ spans[k].end = s + 1
                  /\ spans[k].text = <<c>>
                  /\ spans[k].category =
                        IF c \in {"^", "$"} THEN "Anchor"
                        ELSE IF c \in {"+", "*", "?"} THEN "Quantifier"
                        ELSE IF c = "|" THEN "Alternation"
                        ELSE IF c \in {"(", ")"} THEN "GroupDelimiter"
                        ELSE "Literal"
    /\ tpc = "done"
          /\ chars = <<"^", "\\", "d", "{", "3", "}", "-", "\\", "d", "{", "4", "}", "$">>
          => Categories = <<"Anchor", "CharClassShorthand", "QuantifierRange", "Literal",
                            "CharClassShorthand", "QuantifierRange", "Anchor">>

C13_Witness ==
    /\ tpc = "done"
    /\ chars = <<"^", "\\", "d", "{", "3", "}", "-", "\\", "d", "{", "4", "}", "$">>
    /\ Len(spans) = 7
    /\ spans[4] = Span(6, 7, "Literal", <<"-">>)
    /\ spans[7] = Span(12, 13, "Anchor", <<"$">>)

(* A character the scan gives the default (Literal) category wherever it     *)
(* stands.                                                                   *)
DefaultChar(c) ==
    /\ c \notin {"\\", "{", "["}
    /\ NextSpan(<<c>>, 0).category = "Literal"

(* chars is a non-capturing group (?:X) whose body X holds default           *)
(* characters only.                                                          *)
NonCapturingGroup ==
    /\ Len(chars) >= 4
    /\ chars[1] = "(" /\ chars[2] = "?" /\ chars[3] = ":"
    /\ chars[Len(chars)] = ")"
    /\ \A k \in 4..(Len(chars) - 1) : DefaultChar(chars[k])

(* C20 as stated: of a non-capturing group (?:X) with a body of default      *)
(* characters, only the two parentheses get a category other than Literal    *)
(* (GroupDelimiter); the "?" after "(" is not a Quantifier.                  *)
C20_AsStated ==
    (tpc = "done" /\ NonCapturingGroup) =>
        \A k \in 1..Len(spans) :
            IF spans[k].start \in {0, Len(chars) - 1}
            THEN spans[k].category = "GroupDelimiter"
            ELSE spans[k].category = "Literal"

----------------------------------------------------------------------------
(* Claims about strip_markdown_code_block *)

(* r is str without the white space at its two ends. *)
IsTrimOf(r, str) ==
    /\ r # <<>> => (r[1] \notin WhiteSpace /\ r[Len(r)] \notin WhiteSpace)
    /\ \E k \in 0..(Len(str) - Len(r)) :
          /\ SubSeq(str, k + 1, k + Len(r)) = r
          /\ \A j \in (1..k) \cup ((k + Len(r) + 1)..Len(str)) : str[j] \in WhiteSpace

SubStrings(str) == {SubSeq(str, a, b) : a \in 1..(Len(str) + 1), b \in 0..Len(str)}

(* The opening fence of t: the three backticks, with the json tag when it   *)
(* follows them at once.                                                     *)
Opening(t) == IF StartsWith(t, FenceJson) THEN FenceJson ELSE Fence

(* The texts that str, white space at its ends aside, encloses between an   *)
(* opening fence and a closing one.                                          *)
Enclosed(str) ==
    UNION { {c \in SubStrings(t) : t = Opening(t) \o c \o Fence} :
            t \in {u \in SubStrings(str) : IsTrimOf(u, str)} }

(* C24: when the argument, white space at its ends aside, is an opening      *)
(* fence (three backticks and the json tag if it follows at once), a content *)
(* and a closing fence, the content without the white space at its ends is   *)
(* returned; in every other case the argument is returned as it is, white    *)
(* space at its ends included.                                               *)
C24_Strip ==
    strip_ret.some =>
        LET contents == Enclosed(strip_s)
        IN  IF contents # {}
            THEN \A c \in contents : IsTrimOf(strip_ret.val, c)
            ELSE strip_ret.val = strip_s

C24_Witness ==
    /\ strip_s = <<" ", " ">> \o FenceJson \o <<"\n", "x", "\n">> \o Fence \o <<" ", " ">>
    /\ strip_ret = Some(<<"x">>)

(* An opening fence that is never closed: the argument comes back whole. *)
C24_WitnessUnclosed ==
    /\ strip_s = <<" ">> \o FenceJson \o <<"\n", "x", " ">>
    /\ strip_ret = Some(strip_s)

----------------------------------------------------------------------------
(* Claims about Claude::query *)

QueryDone == qpc = "done" /\ output.some /\ output.val.kind = "Ok"
Applied(f) == \E k \in 1..Len(qlog) : qlog[k] = f
IsErr(ret, variant) == ret.kind = "Err" /\ ret.error.variant = variant

(* C23: a process that exits with failure gives Error::Claude with its       *)
(* stderr and its stdout is never parsed, whatever it holds; after a         *)
(* successful exit, stdout that does not parse gives a Parse error, a reply  *)
(* flagged is_error gives Error::Claude with the result text, and only what  *)
(* is left returns Ok, the one case in which the fence is stripped; the      *)
(* steps are taken in the order output, from_slice, strip.                   *)
C23_Query ==
    /\ \E n \in 0..3 :
          qlog = SubSeq(<<"output", "from_slice", "strip_markdown_code_block">>, 1, n)
    /\ Applied("strip_markdown_code_block") <=> qret.kind = "Ok"
    /\ QueryDone =>
          LET o == output.val.value
              r == FromSlice(o.stdout)
          IN  /\ ~o.success =>
                    /\ IsErr(qret, "Claude")
                    /\ qret.error.message = o.stderr
                    /\ ~Applied("from_slice")
                    /\ ~response.some
              /\ (o.success /\ ~r.ok) =>
                    /\ IsErr(qret, "Parse")
                    /\ Applied("from_slice")
              /\ (o.success /\ r.ok /\ r.is_error) =>
                    /\ IsErr(qret, "Claude")
                    /\ qret.error.message = r.result
              /\ (o.success /\ r.ok /\ ~r.is_error) =>
                    /\ qret.kind = "Ok"
                    /\ qret.value = strip_markdown_code_block(r.result)
              /\ qret.kind = "Ok" => (o.success /\ r.ok /\ ~r.is_error)

(* The process failed with a valid reply, not flagged, on its stdout. *)
C23_Witness ==
    /\ QueryDone
    /\ ~output.val.value.success
    /\ FromSlice(output.val.value.stdout).ok
    /\ ~FromSlice(output.val.value.stdout).is_error
    /\ output.val.value.stderr = <<"boom">>
    /\ qret = Err([variant |-> "Claude", message |-> <<"boom">>])
    /\ qlog = <<"output">>

----------------------------------------------------------------------------
(* Claims about run *)

Called(f) == \E k \in 1..Len(rlog) : rlog[k] = f
IsPrefix(a, b) == Len(a) <= Len(b) /\ SubSeq(b, 1, Len(a)) = a

(* The note of each flavor that can be chosen on the command line. *)
NoteOfFlavor(flavor) ==
    CASE flavor = "Rust" -> RustNote
      [] flavor = "Js" -> JsNote
      [] flavor = "Pcre" -> PcreNote
      [] flavor = "Posix" -> PosixNote

(* C21 as stated: whichever flavor the command line chooses, the generate    *)
(* prompt run builds holds the note of that flavor, and never the empty note *)
(* of the default branch.                                                    *)
C21_AsStated ==
    (Called("build_prompt") /\ ~cli.explain) =>
        /\ \E k \in 1..Len(prompt) : prompt[k] = NoteOfFlavor(cli.flavor)
        /\ FlavorNote(Flavor_as_str(cli.flavor)) # ""

(* The calls of a whole run, in order, by mode. *)
FullRun ==
    IF ~cli.explain /\ cli.test.some
    THEN <<"validate_flags", "input", "build_prompt", "query", "parse_response",
           "test_pattern", "println">>
    ELSE <<"validate_flags", "input", "build_prompt", "query", "parse_response",
           "println">>

RunDone == rpc = "done"

(* C22: run validates the flags, then checks the input, then queries the     *)
(* backend. validate_flags fails, with InvalidFlags, exactly when explain    *)
(* and a test input are both set; a missing input fails with InvalidFlags;   *)
(* in both cases no process was run and nothing printed. A run that returns  *)
(* Ok has run the backend once and printed one formatted result. In test     *)
(* mode test_pattern starts only once parse_response has returned Ok, on the *)
(* record it returned.                                                       *)
C22_Order ==
    /\ IsPrefix(rlog, FullRun)
    /\ Len(spawned) <= 1
    /\ Len(spawned) = 1 => IsPrefix(<<"validate_flags", "input", "build_prompt", "query">>, rlog)
    /\ (RunDone /\ rlog = <<"validate_flags">>) <=> (RunDone /\ cli.explain /\ cli.test.some)
    /\ (RunDone /\ cli.explain /\ cli.test.some) =>
          /\ IsErr(rret, "InvalidFlags")
          /\ spawned = <<>> /\ printed = <<>>
    /\ (RunDone /\ ~(cli.explain /\ cli.test.some) /\ ~cli.input.some) =>
          /\ IsErr(rret, "InvalidFlags")
          /\ rlog = <<"validate_flags", "input">>
          /\ spawned = <<>> /\ printed = <<>>
    /\ (RunDone /\ rret.kind = "Ok") =>
          /\ Len(spawned) = 1
          /\ Len(printed) = 1
          /\ rlog = FullRun
    /\ (RunDone /\ rret.kind = "Err") => printed = <<>>
    /\ npc # "idle" =>
          /\ parsed.kind = "Ok"
          /\ generated = parsed.value
          /\ ~cli.explain /\ cli.test.some
    /\ ~RunDone => rret.kind = "none"

C22_Witness ==
    /\ RunDone
    /\ rret = Ok(<<>>)
    /\ cli.test = Some(<<"a", "b">>)
    /\ cli.flavor = "Pcre"
    /\ cli.raw
    /\ rlog = <<"validate_flags", "input", "build_prompt", "query", "parse_response",
               "test_pattern", "println">>
    /\ Len(spawned) = 1
    /\ spawned[1][2] = prompt
    /\ Len(printed) = 1
    /\ printed[1].formatter = "format_test"
    /\ printed[1].value.matches

====
